---- MODULE Spec2Model ----
(***************************************************************************)
(* AndroidVisionAutomator: the oracle-response decoders, the planners,     *)
(* the verifiers and the verify/replan handler of the MCP server, with the *)
(* four POST endpoints of the REST backend.                                *)
(*                                                                         *)
(* An oracle response is a sequence of tokens.  The tokens are             *)
(*   "{" "}" "[" "]"  the JSON brackets,                                   *)
(*   "m"   one member of an object (`"intent": "send_message"`),          *)
(*   "a"   the array element {"action": "click", "target": "Mom"},        *)
(*   "b"   the array element {"action": "setText", "value": "I'll be late"}, *)
(*   "u"   an array element whose "action" is no known kind,                *)
(*   "k"   an array element without an "action" key,                       *)
(*   "x"   a word of prose, which is no JSON.                              *)
(***************************************************************************)
EXTENDS Integers, Sequences, FiniteSets, TLC

VARIABLES
    response,   \* the oracle text a decoder or planner entry point is run on
    entry,      \* the entry point that ran on it ("none" before any ran)
    result,     \* what that entry point returned or raised
    tasks,      \* app.py: the in-memory task store, a set of records, one per task_id
    clock,      \* app.py: datetime.now().timestamp()
    request,    \* app.py: the latest request a POST handler received
    oracleCalled, \* app.py: the handler of that request called the oracle
    plan,       \* the TaskPlan the caller of handle_action_result holds
    inflight,   \* handle_action_result calls suspended at the planner's await
    ncalls,     \* handle_action_result calls made so far
    lastCall,   \* the arguments of the latest handle_action_result call
    ret,        \* the value the latest finished handle_action_result returned
    sent,       \* the prompts handed to llm.complete by the replanning path
    enfRun,     \* consecutive ELEMENT_NOT_FOUND results, each delivered on the
                \* plan the previous one's call returned
    aborted,    \* the external abort signal (kill switch) was raised
    passed      \* the task_plan object of the call that returned last: its
                \* state when passed in and when the call returned

vars == <<response, entry, result, tasks, clock, request, oracleCalled, plan, inflight, ncalls,
          lastCall, ret, sent, enfRun, aborted, passed>>

decodeVars == <<response, entry, result>>
storeVars == <<tasks, clock, request, oracleCalled>>
superVars == <<plan, inflight, ncalls, lastCall, ret, sent, enfRun, aborted, passed>>

None == [t |-> "None"]

\* before any handle_action_result call returned
NoReturn == [cid |-> 0, kind |-> "none", val |-> None]
NonePassed == [cid |-> 0, before |-> None, after |-> None, replanned |-> FALSE]

(***************************************************************************)
(* Bounds of the model                                                     *)
(***************************************************************************)
MaxLen == 4          \* longest enumerated oracle text, in tokens
MaxOver == 2         \* oracle arrays run up to MaxActionsPerPlan + MaxOver elements
MaxCalls == 4        \* handle_action_result calls in one behaviour
MaxInFlight == 2     \* concurrent handle_action_result calls
MaxWords == 2        \* longest enumerated verification answer, in words
MaxClock == 2        \* ticks of the clock in one behaviour

(***************************************************************************)
(* str.find, str.rfind and slicing, with Python's 0-based indices          *)
(***************************************************************************)
Find(s, c) ==
    IF \E i \in 1..Len(s) : s[i] = c
    THEN (CHOOSE i \in 1..Len(s) : s[i] = c /\ \A j \in 1..(i-1) : s[j] # c) - 1
    ELSE -1

RFind(s, c) ==
    IF \E i \in 1..Len(s) : s[i] = c
    THEN (CHOOSE i \in 1..Len(s) : s[i] = c /\ \A j \in (i+1)..Len(s) : s[j] # c) - 1
    ELSE -1

\* s[a:b] for a >= 0, b >= 0
Slice(s, a, b) == SubSeq(s, a + 1, IF b > Len(s) THEN Len(s) ELSE b)

(***************************************************************************)
(* json.loads on a token text.  A JSON value is a record [t, tok, body]:   *)
(* t = "dict" with body the members, t = "list" with body the elements,    *)
(* t = "elem" for the array elements a, b, u, k (dicts themselves) and     *)
(* t = "mem" for an object member.                                         *)
(***************************************************************************)
ElemTokens == {"a", "b", "u", "k"}

ParseFail == [ok |-> FALSE, val |-> None, next |-> 0]

RECURSIVE ParseValue(_, _)
RECURSIVE ParseBody(_, _, _, _)

ParseBody(s, i, close, acc) ==
    IF i > Len(s) THEN ParseFail
    ELSE IF s[i] = close
    THEN [ok |-> TRUE,
          val |-> [t |-> IF close = "}" THEN "dict" ELSE "list", tok |-> close, body |-> acc],
          next |-> i + 1]
    ELSE IF close = "}" /\ s[i] = "m"
    THEN ParseBody(s, i + 1, close, Append(acc, [t |-> "mem", tok |-> "m", body |-> <<>>]))
    ELSE IF close = "]" /\ s[i] \in ElemTokens
    THEN ParseBody(s, i + 1, close, Append(acc, [t |-> "elem", tok |-> s[i], body |-> <<>>]))
    ELSE IF s[i] \in {"{", "["}
    THEN LET r == ParseValue(s, i)
         IN  IF r.ok THEN ParseBody(s, r.next, close, Append(acc, r.val)) ELSE ParseFail
    ELSE ParseFail

ParseValue(s, i) ==
    IF i > Len(s) THEN ParseFail
    ELSE IF s[i] = "{" THEN ParseBody(s, i + 1, "}", <<>>)
    ELSE IF s[i] = "[" THEN ParseBody(s, i + 1, "]", <<>>)
    ELSE ParseFail

\* [ok |-> TRUE, val |-> v], or ok = FALSE for json.JSONDecodeError
JsonLoads(s) ==
    LET r == ParseValue(s, 1)
    IN  IF r.ok /\ r.next = Len(s) + 1
        THEN [ok |-> TRUE, val |-> r.val]
        ELSE [ok |-> FALSE, val |-> None]

(***************************************************************************)
(* The oracle texts the model enumerates                                   *)
(***************************************************************************)
MaxActionsPerPlan == 20

RECURSIVE SeqsUpTo(_, _)
SeqsUpTo(S, n) ==
    IF n = 0 THEN {<<>>}
    ELSE LET shorter == SeqsUpTo(S, n - 1)
         IN  shorter \cup {Append(q, c) : q \in {r \in shorter : Len(r) = n - 1}, c \in S}

Repeat(c, n) == [i \in 1..n |-> c]

IntentAlphabet == {"{", "}", "m", "x"}
PlanAlphabet == {"[", "]", "a", "u", "k", "x"}

\* an intent request's responses: every short text, and two arrays
IntentTexts == SeqsUpTo(IntentAlphabet, MaxLen) \cup {<<"[", "]">>, <<"[", "a", "]">>}

\* a plan request's responses: every short text, arrays around the cap of
\* 20 actions, and a few texts with a second action kind or an object
LongArrays ==
    {<<"[">> \o Repeat("a", n) \o <<"]">> :
        n \in (MaxActionsPerPlan - 1)..(MaxActionsPerPlan + MaxOver)}

PlanTexts ==
    SeqsUpTo(PlanAlphabet, MaxLen) \cup LongArrays
    \cup {<<"[", "b", "a", "]">>, <<"[", "a", "b", "]">>, <<"{", "}">>, <<"{", "m", "}">>,
          <<"[", "{", "}", "]">>}

(***************************************************************************)
(* Intent resolution: the three entry points                               *)
(***************************************************************************)
Return(v) == [kind |-> "return", val |-> v]
Raise(e) == [kind |-> "raise", val |-> [t |-> "exception", type |-> e]]

\* the dict literal ClaudeLLMClient.extract_intent falls back to
FallbackIntent ==
    [intent |-> "unknown", target_app |-> "None", confidence |-> 0, entities |-> {}]

\* the dict literal SyncClaudeLLMClient.extract_intent_sync falls back to
FallbackIntentSync ==
    [intent |-> "unknown", target_app |-> "None", entities |-> {}]

\* ClaudeLLMClient.extract_intent, from the oracle's response on
extract_intent(text) ==
    LET json_start == Find(text, "{")
        json_end == RFind(text, "}") + 1
        loaded == JsonLoads(Slice(text, json_start, json_end))
    IN  IF json_start >= 0 /\ json_end > json_start /\ loaded.ok
        THEN Return(loaded.val)
        ELSE Return(FallbackIntent)

\* SyncClaudeLLMClient.extract_intent_sync, from the oracle's response on
extract_intent_sync(text) ==
    LET json_start == Find(text, "{")
        json_end == RFind(text, "}") + 1
        loaded == JsonLoads(Slice(text, json_start, json_end))
    IN  IF json_start >= 0 /\ loaded.ok
        THEN Return(loaded.val)
        ELSE Return(FallbackIntentSync)

\* dict.get("intent") on a parsed object: "m" is the member "intent"
GetIntent(d) ==
    IF \E i \in 1..Len(d.body) : d.body[i].t = "mem" THEN "send_message" ELSE "None"

\* the UserIntent dataclass; oid is the identity id() of the object
UserIntent(oid, d) ==
    [t |-> "UserIntent", oid |-> oid, intent |-> GetIntent(d), data |-> d]

\* IntentParser.parse_user_input, from the oracle's response on
parse_user_input(oid, text) ==
    LET loaded == JsonLoads(text)
    IN  IF ~loaded.ok THEN Raise("ValueError")
        ELSE IF loaded.val.t # "dict" THEN Raise("AttributeError")
        ELSE Return(UserIntent(oid, loaded.val))

(***************************************************************************)
(* Planning: the decoders of the action array                              *)
(***************************************************************************)
\* the UIAction built from an array element that has an "action" key
UIAction(tok) ==
    CASE tok = "a" -> [action |-> "click", target |-> "Mom", value |-> "None"]
      [] tok = "b" -> [action |-> "setText", target |-> "None", value |-> "I'll be late"]
      [] OTHER -> [action |-> "fly", target |-> "None", value |-> "None"]

\* a["action"] succeeds on the element
HasActionKey(e) == e.t = "elem" /\ e.tok # "k"

\* the exception a["action"] raises on the element
SubscriptError(e) == IF e.t = "list" THEN "TypeError" ELSE "KeyError"

\* task_id=f"task_{id(intent)}"
TaskIdOf(intent) == <<"task", intent.oid>>

TaskPlan(intent, actions) ==
    [t |-> "TaskPlan", task_id |-> TaskIdOf(intent), original_intent |-> intent,
     actions |-> actions]

\* TaskPlanner.plan_task, from the oracle's response on
plan_task(intent, text) ==
    LET loaded == JsonLoads(text)
        data == loaded.val
        bad == {i \in 1..Len(data.body) : ~HasActionKey(data.body[i])}
        first == CHOOSE i \in bad : \A j \in bad : i <= j
    IN  IF ~loaded.ok THEN Raise("ValueError")
        ELSE IF data.t = "dict"
        THEN IF data.body = <<>> THEN Return(TaskPlan(intent, <<>>)) ELSE Raise("TypeError")
        ELSE IF bad = {}
        THEN Return(TaskPlan(intent, [i \in 1..Len(data.body) |-> UIAction(data.body[i].tok)]))
        ELSE IF SubscriptError(data.body[first]) = "KeyError" THEN Raise("ValueError")
        ELSE Raise("TypeError")

\* ClaudeLLMClient.plan_actions and replan_for_failure, from the response on
plan_actions(text) ==
    LET json_start == Find(text, "[")
        json_end == RFind(text, "]") + 1
        loaded == JsonLoads(Slice(text, json_start, json_end))
    IN  IF json_start >= 0 /\ json_end > json_start /\ loaded.ok
        THEN Return(loaded.val.body)
        ELSE Return(<<>>)

\* SyncClaudeLLMClient.plan_actions_sync, from the response on
plan_actions_sync(text) ==
    LET json_start == Find(text, "[")
        json_end == RFind(text, "]") + 1
        loaded == JsonLoads(Slice(text, json_start, json_end))
    IN  IF json_start >= 0 /\ loaded.ok
        THEN Return(loaded.val.body)
        ELSE Return(<<>>)

(***************************************************************************)
(* Intent resolution on every enumerated oracle text                       *)
(***************************************************************************)
IdleSupervisor ==
    /\ plan = None
    /\ inflight = {}
    /\ ncalls = 0
    /\ lastCall = None
    /\ ret = NoReturn
    /\ sent = <<>>
    /\ enfRun = 0
    /\ aborted = FALSE
    /\ passed = NonePassed

EmptyStore ==
    /\ tasks = {}
    /\ clock = 0
    /\ request = None
    /\ oracleCalled = FALSE

InitDecode ==
    /\ response \in IntentTexts
    /\ entry = "none"
    /\ result = None
    /\ EmptyStore
    /\ IdleSupervisor

ExtractIntent ==
    /\ entry = "none"
    /\ entry' = "extract_intent"
    /\ result' = extract_intent(response)
    /\ UNCHANGED <<response, storeVars, superVars>>

ExtractIntentSync ==
    /\ entry = "none"
    /\ entry' = "extract_intent_sync"
    /\ result' = extract_intent_sync(response)
    /\ UNCHANGED <<response, storeVars, superVars>>

ParseUserInput ==
    /\ entry = "none"
    /\ entry' = "parse_user_input"
    /\ result' = parse_user_input(1, response)
    /\ UNCHANGED <<response, storeVars, superVars>>

NextDecode == ExtractIntent \/ ExtractIntentSync \/ ParseUserInput

SpecDecode == InitDecode /\ [][NextDecode]_vars

(***************************************************************************)
(* POST /api/plan                                                          *)
(***************************************************************************)
\* request bodies: absent, or with each required field present or not
PlanRequests ==
    {[body |-> FALSE, intent |-> FALSE, screen_state |-> FALSE]}
    \cup [body : {TRUE}, intent : BOOLEAN, screen_state : BOOLEAN]

Http(status, body) == [kind |-> "http", status |-> status, val |-> body]

\* f"task_{datetime.now().timestamp()}"
TimestampId(now) == <<"task", now>>

\* tasks[task_id] = {...}: an assignment replaces the record under the key
StoreTask(store, task_id, actions) ==
    {r \in store : r.task_id # task_id} \cup {[task_id |-> task_id, actions |-> actions]}

\* app.plan_task: the response, and the task store after it
app_plan_task(req, text, store, now) ==
    IF ~req.body
    THEN [response |-> Http(500, [error |-> "AttributeError"]), tasks |-> store]
    ELSE IF ~req.intent \/ ~req.screen_state
    THEN [response |-> Http(400, [error |-> "Missing intent or screen_state"]),
          tasks |-> store]
    ELSE LET actions == plan_actions_sync(text).val
         IN  [response |-> Http(200, [task_id |-> TimestampId(now), actions |-> actions]),
              tasks |-> StoreTask(store, TimestampId(now), actions)]

\* app.plan_task gets as far as llm_client.plan_actions_sync
plan_task_calls_oracle(req) == req.body /\ req.intent /\ req.screen_state

(***************************************************************************)
(* Planning on every enumerated oracle text                                *)
(***************************************************************************)
\* the intent a plan is made for: a parsed {"intent": "send_message"}
SomeIntent == UserIntent(1, JsonLoads(<<"{", "m", "}">>).val)

InitPlan ==
    /\ response \in PlanTexts
    /\ entry = "none"
    /\ result = None
    /\ EmptyStore
    /\ IdleSupervisor

PlanTask ==
    /\ entry = "none"
    /\ entry' = "plan_task"
    /\ result' = plan_task(SomeIntent, response)
    /\ UNCHANGED <<response, storeVars, superVars>>

PlanActions ==
    /\ entry = "none"
    /\ entry' = "plan_actions"
    /\ result' = plan_actions(response)
    /\ UNCHANGED <<response, storeVars, superVars>>

PlanActionsSync ==
    /\ entry = "none"
    /\ entry' = "plan_actions_sync"
    /\ result' = plan_actions_sync(response)
    /\ UNCHANGED <<response, storeVars, superVars>>

AppPlanTask ==
    /\ entry = "none"
    /\ \E req \in PlanRequests :
        LET out == app_plan_task(req, response, tasks, clock)
        IN  /\ entry' = "app_plan_task"
            /\ result' = out.response
            /\ tasks' = out.tasks
            /\ request' = [endpoint |-> "plan", req |-> req]
            /\ oracleCalled' = plan_task_calls_oracle(req)
    /\ UNCHANGED <<response, clock, superVars>>

NextPlan == PlanTask \/ PlanActions \/ PlanActionsSync \/ AppPlanTask

SpecPlan == InitPlan /\ [][NextPlan]_vars

(***************************************************************************)
(* The verify/replan handler of the MCP server                             *)
(***************************************************************************)
MaxReplans == 3

Statuses == {"SUCCESS", "FAILED", "ELEMENT_NOT_FOUND"}

\* the screen after the failed action
ScreenAfter ==
    [current_app |-> "com.whatsapp", visible_texts |-> {"Chats", "Status", "Calls"}]

\* the oracle's responses to the planner in a supervised task
SuperPlanTexts ==
    {<<"[", "a", "]">>, <<"[", "b", "a", "]">>, <<"[", "]">>, <<"[", "k", "]">>}

\* the oracle's responses to the intent parser in a supervised task
SuperIntentTexts == {<<"{", "m", "}">>, <<"x">>}

\* failed_action.target or failed_action.value
TargetOrValue(action) == IF action.target # "None" THEN action.target ELSE action.value

\* the literals of the example and the requirements in plan_task's template
PlanTemplateStrings == {"com.whatsapp", "Mom", "I'm late", "element not found"}

\* the strings of the prompt TaskPlanner.plan_task sends: its template's, and
\* the intent and the screen it interpolates
PlanPrompt(intent, screen) ==
    [template |-> "plan_task",
     strings |-> PlanTemplateStrings \cup {intent.intent, screen.current_app}
                 \cup screen.visible_texts]

\* the strings of the replan_prompt that replan_after_failure builds
ReplanPrompt(original_plan, failed_action_index, failure_reason, screen) ==
    LET failed_action == original_plan.actions[failed_action_index + 1]
    IN  [template |-> "replan",
         strings |-> {failed_action.action, TargetOrValue(failed_action), failure_reason,
                      screen.current_app, original_plan.original_intent.intent}
                     \cup screen.visible_texts]

\* VerificationLoop.replan_after_failure up to its await: the prompt that is
\* handed to llm.complete (the planner's), the replan_prompt it built and
\* left unused, and the arguments of the call
replan_after_failure_send(original_plan, failed_action_index, failure_reason, screen) ==
    [prompt |-> PlanPrompt(original_plan.original_intent, screen),
     replan_prompt |-> ReplanPrompt(original_plan, failed_action_index, failure_reason,
                                    screen),
     failed_action |-> original_plan.actions[failed_action_index + 1],
     failure_reason |-> failure_reason]

\* VerificationLoop.replan_after_failure after its await: text is the oracle's
\* response, or GatewayError when llm.complete raised
GatewayError == <<"GatewayError">>

replan_after_failure_return(original_plan, text) ==
    LET planned == IF text = GatewayError THEN Raise("GatewayError")
                   ELSE plan_task(original_plan.original_intent, text)
    IN  IF planned.kind = "return" THEN planned.val ELSE None

\* a replanning that patches the plan it was given with the new actions
original_plan_patched(original_plan, text) ==
    LET new_plan == replan_after_failure_return(original_plan, text)
    IN  IF new_plan = None THEN original_plan
        ELSE [original_plan EXCEPT !.actions = new_plan.actions]

\* the original_plan object after replan_after_failure returned: the method
\* reads original_plan.actions and original_plan.original_intent and assigns
\* to no field of it, and plan_task builds a new TaskPlan
original_plan_after_replan(original_plan, text) == original_plan

\* AndroidVisionMCP.handle_action_result up to its first await:
\* a return, a raise, or "await" with the replanning call it is suspended in
handle_action_result(task_plan, action_index, status, screen) ==
    IF action_index >= Len(task_plan.actions) THEN Raise("IndexError")
    ELSE IF status = "SUCCESS" THEN Return(task_plan)
    ELSE IF status = "ELEMENT_NOT_FOUND"
    THEN [kind |-> "await",
          val |-> replan_after_failure_send(task_plan, action_index, "Element not found",
                                            screen)]
    ELSE Return(None)

\* AndroidVisionMCP.process_user_command: parse the intent, then plan
process_user_command(oid, intentText, planText) ==
    LET parsed == parse_user_input(oid, intentText)
    IN  IF parsed.kind = "raise" THEN parsed ELSE plan_task(parsed.val, planText)

\* the action indices a caller delivers results for
Indices(p) == 0..(IF Len(p.actions) = 0 THEN 0 ELSE Len(p.actions) - 1)

InitSuper ==
    /\ response = <<>>
    /\ entry = "none"
    /\ result = None
    /\ EmptyStore
    /\ IdleSupervisor

ProcessUserCommand ==
    /\ plan = None
    /\ \E intentText \in SuperIntentTexts, planText \in SuperPlanTexts :
        LET out == process_user_command(1, intentText, planText)
        IN  /\ result' = out
            /\ plan' = IF out.kind = "return" THEN out.val ELSE None
    /\ UNCHANGED <<response, entry, storeVars, inflight, ncalls, lastCall, ret, sent, enfRun,
                   aborted, passed>>

\* one call of handle_action_result, run to its return or to its await
Call(p, i, status, dup) ==
    LET cid == ncalls + 1
        out == handle_action_result(p, i, status, ScreenAfter)
        chained == /\ ~dup
                   /\ inflight = {}
                   /\ enfRun > 0
                   /\ ret.cid = lastCall.cid
                   /\ ret.kind = "return"
                   /\ ret.val = p
    IN  /\ ncalls < MaxCalls
        /\ Cardinality(inflight) < MaxInFlight
        /\ ncalls' = cid
        /\ lastCall' = [cid |-> cid, plan |-> p, index |-> i, status |-> status, dup |-> dup]
        /\ IF out.kind = "await"
           THEN /\ inflight' = inflight \cup {[cid |-> cid, plan |-> p]}
                /\ sent' = Append(sent, out.val)
                /\ enfRun' = IF chained THEN enfRun + 1 ELSE 1
                /\ UNCHANGED <<ret, plan, passed>>
           ELSE /\ ret' = [cid |-> cid, kind |-> out.kind, val |-> out.val]
                /\ passed' = [cid |-> cid, before |-> p, after |-> p, replanned |-> FALSE]
                /\ enfRun' = 0
                /\ UNCHANGED <<inflight, sent, plan>>
        /\ UNCHANGED <<decodeVars, storeVars, aborted>>

\* the executor's result for an action of the plan the caller holds
Deliver ==
    /\ plan # None
    /\ \E i \in Indices(plan), status \in Statuses : Call(plan, i, status, FALSE)

\* the same result delivered again
Redeliver ==
    /\ lastCall # None
    /\ Call(lastCall.plan, lastCall.index, lastCall.status, TRUE)

\* the oracle answers a suspended replanning call, which runs to its return;
\* the caller goes on with the plan it returns
OracleReplies ==
    \E c \in inflight, text \in SuperPlanTexts \cup {GatewayError} :
        LET new_plan == replan_after_failure_return(c.plan, text)
        IN  /\ inflight' = inflight \ {c}
            /\ ret' = [cid |-> c.cid, kind |-> "return", val |-> new_plan]
            /\ passed' = [cid |-> c.cid, before |-> c.plan,
                          after |-> original_plan_after_replan(c.plan, text),
                          replanned |-> TRUE]
            /\ plan' = IF new_plan # None THEN new_plan ELSE plan
            /\ UNCHANGED <<decodeVars, storeVars, ncalls, lastCall, sent, enfRun, aborted>>

\* the external abort signal; no code of the server receives it
Abort ==
    /\ plan # None
    /\ ~aborted
    /\ aborted' = TRUE
    /\ UNCHANGED <<decodeVars, storeVars, plan, inflight, ncalls, lastCall, ret, sent,
                   enfRun, passed>>

NextSuper == ProcessUserCommand \/ Deliver \/ Redeliver \/ OracleReplies \/ Abort

SpecSuper == InitSuper /\ [][NextSuper]_vars

(***************************************************************************)
(* Claims about the replanning supervisor, under SpecSuper                 *)
(***************************************************************************)
\* the latest handle_action_result call has returned, and ret is its return
Returned == lastCall # None /\ ret.cid = lastCall.cid

\* C1: after MaxReplans consecutive ELEMENT_NOT_FOUND results, each delivered
\* on the plan the previous call returned, the planner is not invoked again:
\* a run of such results never grows past MaxReplans planner invocations.
C1_BoundedReplanning == enfRun <= MaxReplans

\* C2: a call of handle_action_result with status FAILED or ELEMENT_NOT_FOUND
\* for an action of the plan, made while fewer than MaxReplans replans were
\* made, hands a prompt to the planner's oracle.
C2_FailureInvokesPlanner ==
    [][(/\ ncalls' = ncalls + 1
        /\ lastCall'.status \in {"FAILED", "ELEMENT_NOT_FOUND"}
        /\ lastCall'.index < Len(lastCall'.plan.actions)
        /\ Len(sent) < MaxReplans)
       => Len(sent') = Len(sent) + 1]_vars

\* C3: the outcome of handling SUCCESS for the last action of a plan differs
\* from the outcome of handling SUCCESS for an action that is not the last.
C3_CompletedDistinguishable ==
    (/\ Returned
     /\ lastCall.status = "SUCCESS"
     /\ Len(lastCall.plan.actions) >= 2
     /\ lastCall.index = Len(lastCall.plan.actions) - 1)
    => [kind |-> ret.kind, val |-> ret.val]
         # handle_action_result(lastCall.plan, 0, "SUCCESS", ScreenAfter)

\* C4: every prompt handed to the oracle for a replacement plan contains the
\* failed action's target (or value) and the failure reason.
C4_ReplanPromptHasFailure ==
    \A n \in 1..Len(sent) :
        /\ TargetOrValue(sent[n].failed_action) \in sent[n].prompt.strings
        /\ sent[n].failure_reason \in sent[n].prompt.strings

\* C5: a result delivered a second time (same plan, same action index, same
\* status) causes no second replan: no prompt goes to the planner's oracle.
C5_DuplicateDeliveryIgnored ==
    [][(ncalls' = ncalls + 1 /\ lastCall'.dup) => sent' = sent]_vars

\* C6: once the abort signal was raised the task is over: no prompt goes to
\* the planner's oracle, and the plan the caller holds is not replaced by the
\* result of a call that was in flight.
C6_AbortDiscardsInFlight ==
    [][aborted => (sent' = sent /\ plan' = plan)]_vars

(***************************************************************************)
(* Claims about intent resolution, under SpecDecode                        *)
(***************************************************************************)
\* the positions where a balanced JSON object starts
ObjectStarts(text) == {i \in 1..Len(text) : text[i] = "{" /\ ParseValue(text, i).ok}

\* the first balanced JSON object in the text, parsed in isolation
FirstObject(text) ==
    ParseValue(text, CHOOSE i \in ObjectStarts(text) : \A j \in ObjectStarts(text) : i <= j).val

\* C7: when the oracle text contains a valid JSON object, every entry point
\* returns the intent that parsing the first balanced object alone gives.
C7_EmbeddedObjectDecoded ==
    (entry # "none" /\ ObjectStarts(response) # {})
    => IF entry = "parse_user_input"
       THEN result = Return(UserIntent(1, FirstObject(response)))
       ELSE result = Return(FirstObject(response))

\* C8: when the oracle text contains no JSON object, every entry point
\* returns the fallback intent: kind "unknown", confidence 0, no entities;
\* none raises.
C8_FallbackIntentReturned ==
    (entry # "none" /\ ObjectStarts(response) = {})
    => /\ result.kind = "return"
       /\ {"intent", "confidence", "entities"} \subseteq DOMAIN result.val
       /\ result.val.intent = "unknown"
       /\ result.val.confidence = 0
       /\ result.val.entities = {}

(***************************************************************************)
(* Claims about planning, under SpecPlan                                   *)
(***************************************************************************)
KnownKinds == {"open_app", "click", "setText", "scroll", "find_text", "wait", "back", "home"}

ArrayStarts(text) == {i \in 1..Len(text) : text[i] = "[" /\ ParseValue(text, i).ok}

\* the elements of the first balanced JSON array in the text
FirstArray(text) ==
    IF ArrayStarts(text) = {} THEN <<>>
    ELSE ParseValue(text, CHOOSE i \in ArrayStarts(text) : \A j \in ArrayStarts(text) : i <= j).val.body

\* the elements that decode to an action of a known kind
Usable(text) ==
    SelectSeq(FirstArray(text), LAMBDA e : HasActionKey(e) /\ UIAction(e.tok).action \in KnownKinds)

\* a planner entry point ran on a well-formed request
Planned ==
    \/ entry \in {"plan_task", "plan_actions", "plan_actions_sync"}
    \/ entry = "app_plan_task" /\ result.status = 200

\* TaskPlanner.plan_task, plan_actions_sync or POST /api/plan ran
PlannedForTask == Planned /\ entry # "plan_actions"

PlanningFailed == result.kind = "raise"

\* the action sequence of the plan the entry point returned
PlannedActions == IF entry \in {"plan_task", "app_plan_task"} THEN result.val.actions ELSE result.val

\* C9: the planner fails exactly when the oracle output has no usable action;
\* no plan with an empty action sequence is returned or stored.
C9_PlanningErrorIffNoUsableAction ==
    /\ PlannedForTask => (PlanningFailed <=> Len(Usable(response)) = 0)
    /\ (PlannedForTask /\ ~PlanningFailed) => Len(PlannedActions) >= 1
    /\ \A r \in tasks : Len(r.actions) >= 1

\* C10: a returned plan has at most MaxActionsPerPlan actions, and an oracle
\* array with more elements yields a plan of MaxActionsPerPlan actions.
C10_PlanLengthCapped ==
    /\ (Planned /\ ~PlanningFailed) => Len(PlannedActions) <= MaxActionsPerPlan
    /\ (Planned /\ Len(Usable(response)) > MaxActionsPerPlan)
       => (~PlanningFailed /\ Len(PlannedActions) = MaxActionsPerPlan)

\* the "action" of an element of a returned plan: a UIAction's, or the one of
\* the raw array element that plan_actions hands on ("None" when it has none)
KindOf(x) ==
    IF "action" \in DOMAIN x THEN x.action
    ELSE IF HasActionKey(x) THEN UIAction(x.tok).action
    ELSE "None"

\* C11: every action of a returned plan has a kind of the catalogue: an array
\* element of another kind is dropped, and the elements around it are kept.
C11_ClosedActionVocabulary ==
    (Planned /\ ~PlanningFailed)
    => /\ \A n \in 1..Len(PlannedActions) : KindOf(PlannedActions[n]) \in KnownKinds
       /\ Len(PlannedActions) = Len(Usable(response))

(***************************************************************************)
(* Outcome verification.  The oracle's answer is a sequence of characters. *)
(***************************************************************************)
\* str.upper on one character
Upper(c) ==
    CASE c = "y" -> "Y" [] c = "e" -> "E" [] c = "s" -> "S" [] c = "n" -> "N"
      [] c = "o" -> "O" [] c = "k" -> "K" [] OTHER -> c

\* str.upper
StrUpper(str) == [i \in 1..Len(str) |-> Upper(str[i])]

\* sub in str
Contains(str, sub) ==
    \E i \in 0..(Len(str) - Len(sub)) : SubSeq(str, i + 1, i + Len(sub)) = sub

\* the words an answer is made of
AnswerWords ==
    {<<"y", "e", "s">>, <<"Y", "E", "S">>, <<"Y", "e", "s">>, <<"n", "o">>, <<"N", "O">>,
     <<"e", "y", "e", "s">>, <<"o", "k">>}

RECURSIVE JoinWords(_)
JoinWords(ws) ==
    IF ws = <<>> THEN <<>>
    ELSE IF Len(ws) = 1 THEN ws[1]
    ELSE ws[1] \o <<" ">> \o JoinWords(Tail(ws))

\* the oracle's answers to a verification prompt
VerifyTexts == {JoinWords(ws) : ws \in SeqsUpTo(AnswerWords, MaxWords)}

\* VerificationLoop.verify_action_result, from the oracle's response on
verify_action_result(text) == Return(Contains(StrUpper(text), <<"Y", "E", "S">>))

\* ClaudeLLMClient.verify_action_success, from the oracle's response on
verify_action_success(text) == Return(Contains(StrUpper(text), <<"Y", "E", "S">>))

\* request bodies of POST /api/verify: absent, or with each field present or not
VerifyRequests ==
    {[body |-> FALSE, action |-> FALSE, expected_state |-> FALSE,
      actual_screen_state |-> FALSE]}
    \cup [body : {TRUE}, action : BOOLEAN, expected_state : BOOLEAN,
          actual_screen_state : BOOLEAN]

\* app.verify_action: verify_action_success is a coroutine function that the
\* handler calls without awaiting, so the oracle is not called and jsonify is
\* handed a coroutine object, which it cannot serialize
app_verify_action(req) ==
    IF ~req.body \/ ~req.action
    THEN Http(500, [error |-> "AttributeError"])
    ELSE Http(500, [error |-> "TypeError"])

InitVerify ==
    /\ response \in VerifyTexts
    /\ entry = "none"
    /\ result = None
    /\ EmptyStore
    /\ IdleSupervisor

VerifyActionResult ==
    /\ entry = "none"
    /\ entry' = "verify_action_result"
    /\ result' = verify_action_result(response)
    /\ UNCHANGED <<response, storeVars, superVars>>

VerifyActionSuccess ==
    /\ entry = "none"
    /\ entry' = "verify_action_success"
    /\ result' = verify_action_success(response)
    /\ UNCHANGED <<response, storeVars, superVars>>

AppVerifyAction ==
    /\ entry = "none"
    /\ \E req \in VerifyRequests :
        /\ entry' = "app_verify_action"
        /\ result' = app_verify_action(req)
        /\ request' = [endpoint |-> "verify", req |-> req]
        /\ oracleCalled' = FALSE
    /\ UNCHANGED <<response, tasks, clock, superVars>>

NextVerify == VerifyActionResult \/ VerifyActionSuccess \/ AppVerifyAction

SpecVerify == InitVerify /\ [][NextVerify]_vars

(***************************************************************************)
(* Claims about outcome verification, under SpecVerify                     *)
(***************************************************************************)
RECURSIVE SplitWords(_, _, _)
\* the words of a text, split at the spaces
SplitWords(str, i, word) ==
    IF i > Len(str) THEN (IF word = <<>> THEN {} ELSE {word})
    ELSE IF str[i] = " " THEN (IF word = <<>> THEN {} ELSE {word}) \cup SplitWords(str, i + 1, <<>>)
    ELSE SplitWords(str, i + 1, Append(word, str[i]))

\* the text has the token YES, in any case
Affirmative(text) == \E w \in SplitWords(text, 1, <<>>) : StrUpper(w) = <<"Y", "E", "S">>

\* the text has the token NO, in any case
Negative(text) == \E w \in SplitWords(text, 1, <<>>) : StrUpper(w) = <<"N", "O">>

\* a verifying entry point returned a boolean
Verified ==
    \/ entry \in {"verify_action_result", "verify_action_success"}
    \/ entry = "app_verify_action" /\ result.status = 200

\* the boolean it returned
VerifiedSuccess == IF entry = "app_verify_action" THEN result.val.success ELSE result.val

\* C12: verify returns true exactly when the answer has an affirmative token
\* and is not ambiguous; an empty answer, an answer with both a negative and
\* an affirmative token, and an answer where YES is only part of another word
\* give false.
C12_VerifyFailsClosed ==
    Verified => (VerifiedSuccess <=> (Affirmative(response) /\ ~Negative(response)))

(***************************************************************************)
(* Claims about the plans of a supervised task, under SpecSuper            *)
(***************************************************************************)
\* the call that returned last was a replanning that produced a plan
Replaced == passed.replanned /\ ret.cid = passed.cid /\ ret.val # None

\* C13: a replacement plan never carries the task_id of the plan it
\* replaces (no two distinct plans share a task_id).
C13_TaskIdUnique == Replaced => ret.val.task_id # passed.before.task_id

\* C15: handle_action_result and replan_after_failure leave the plan passed
\* in as it was (task_id, intent and actions), whether replanning produced a
\* plan or not, and a replacement plan has the intent of the plan it replaces.
C15_ReplanSupersedes ==
    /\ passed.after = passed.before
    /\ Replaced => ret.val.original_intent = passed.before.original_intent

\* a replanning returned a replacement plan with other actions than the
\* plan it was given
C15_Witness == Replaced /\ ret.val.actions # passed.before.actions

(***************************************************************************)
(* The REST API: the four POST endpoints, request after request            *)
(***************************************************************************)
\* request bodies of POST /api/intent: absent, or with "input" present or not
IntentRequests == {[body |-> FALSE, input |-> FALSE]} \cup [body : {TRUE}, input : BOOLEAN]

\* request bodies of POST /api/replan: absent, or with each field present or not
ReplanRequests ==
    {[body |-> FALSE, original_intent |-> FALSE, failed_action |-> FALSE,
      failure_reason |-> FALSE, current_screen_state |-> FALSE]}
    \cup [body : {TRUE}, original_intent : BOOLEAN, failed_action : BOOLEAN,
          failure_reason : BOOLEAN, current_screen_state : BOOLEAN]

\* the oracle's responses to the REST handlers that call it
RestIntentTexts == {<<"{", "m", "}">>, <<"x">>}
RestPlanTexts == {<<"[", "a", "]">>, <<"[", "b", "a", "]">>, <<"x">>}

\* app.parse_intent: without a body data is None and data.get raises
app_parse_intent(req, text) ==
    IF ~req.body THEN Http(500, [error |-> "AttributeError"])
    ELSE IF ~req.input THEN Http(400, [error |-> "No input provided"])
    ELSE Http(200, extract_intent_sync(text).val)

\* app.parse_intent gets as far as llm_client.extract_intent_sync
parse_intent_calls_oracle(req) == req.body /\ req.input

\* app.replan_task: replan_for_failure is a coroutine function that the
\* handler calls without awaiting, so the oracle is not called and jsonify is
\* handed a coroutine object, which it cannot serialize
app_replan_task(req) ==
    IF ~req.body THEN Http(500, [error |-> "AttributeError"])
    ELSE Http(500, [error |-> "TypeError"])

InitRest ==
    /\ response = <<>>
    /\ entry = "none"
    /\ result = None
    /\ EmptyStore
    /\ IdleSupervisor

PostIntent ==
    /\ \E req \in IntentRequests, text \in RestIntentTexts :
        /\ response' = IF parse_intent_calls_oracle(req) THEN text ELSE response
        /\ entry' = "app_parse_intent"
        /\ result' = app_parse_intent(req, text)
        /\ request' = [endpoint |-> "intent", req |-> req]
        /\ oracleCalled' = parse_intent_calls_oracle(req)
    /\ UNCHANGED <<tasks, clock, superVars>>

PostPlan ==
    /\ \E req \in PlanRequests, text \in RestPlanTexts :
        LET out == app_plan_task(req, text, tasks, clock)
        IN  /\ response' = IF plan_task_calls_oracle(req) THEN text ELSE response
            /\ entry' = "app_plan_task"
            /\ result' = out.response
            /\ tasks' = out.tasks
            /\ request' = [endpoint |-> "plan", req |-> req]
            /\ oracleCalled' = plan_task_calls_oracle(req)
    /\ UNCHANGED <<clock, superVars>>

PostVerify ==
    /\ \E req \in VerifyRequests :
        /\ entry' = "app_verify_action"
        /\ result' = app_verify_action(req)
        /\ request' = [endpoint |-> "verify", req |-> req]
        /\ oracleCalled' = FALSE
    /\ UNCHANGED <<response, tasks, clock, superVars>>

PostReplan ==
    /\ \E req \in ReplanRequests :
        /\ entry' = "app_replan_task"
        /\ result' = app_replan_task(req)
        /\ request' = [endpoint |-> "replan", req |-> req]
        /\ oracleCalled' = FALSE
    /\ UNCHANGED <<response, tasks, clock, superVars>>

\* time passes between two requests (or does not: two requests can read the
\* same timestamp)
Tick ==
    /\ clock < MaxClock
    /\ clock' = clock + 1
    /\ UNCHANGED <<decodeVars, tasks, request, oracleCalled, superVars>>

NextRest == PostIntent \/ PostPlan \/ PostVerify \/ PostReplan \/ Tick

SpecRest == InitRest /\ [][NextRest]_vars

(***************************************************************************)
(* Claims about the REST API, under SpecRest                               *)
(***************************************************************************)
\* the latest request has no body or lacks a required field
Malformed == request # None /\ \E f \in DOMAIN request.req : ~request.req[f]

\* C14: a request without a body or without a required field is answered
\* with status 400 and {error: ...}, never with 500, and its handler does not
\* call the oracle.
C14_MalformedBodyIs400 ==
    Malformed
    => /\ result.status = 400
       /\ "error" \in DOMAIN result.val
       /\ ~oracleCalled

====
